---- MODULE Spec2Model ----
(***************************************************************************)
(* AEAD framing of ssclient/src/ahead.rs: the stream chunk codec           *)
(* (ahead_encrypted_write / ahead_decrypted_read) over a cipher session    *)
(* and an asynchronous byte source, and the datagram codec                 *)
(* (encrypt_payload_aead / decrypt_payload_aead).                          *)
(*                                                                         *)
(* Buffers are sequences of bytes (0..255); a Rust slice buf[a..b] is      *)
(* SubSeq(buf, a+1, b).  The cipher engine (crate `crypto`) is an external *)
(* collaborator: it is modelled from its interface as an ideal AEAD whose  *)
(* tag depends on the key, the salt, the nonce and every ciphertext bit.   *)
(***************************************************************************)
EXTENDS Integers, Sequences, FiniteSets, TLC

(***************************************************************************)
(* Bounds of the model.                                                    *)
(***************************************************************************)
\* longest plaintext the small input sets hold
MaxLen == 2
\* chunks written to the stream in one behaviour
MaxChunks == 2
\* ahead_decrypted_read calls in one behaviour
MaxCalls == 3
\* largest partial fragment one poll of the byte source delivers
MaxFrag == 2
\* spare bytes of a caller's buffer beyond what the call needs
Slack == 1
\* tasks that call the datagram codec concurrently
NTasks == 2

(***************************************************************************)
(* Program constants.                                                      *)
(***************************************************************************)
\* crate::MAX_PACKET_SIZE, 0x3FFF (ahead.rs:1, value named at ahead.rs:23)
MAX_PACKET_SIZE == 16383
\* number of values of a u16: `as u16`, BigEndian::write_u16 / read_u16
U16 == 65536
\* number of values of a u8
U8 == 256

Min(a, b) == IF a <= b THEN a ELSE b

\* a buffer of n bytes b
Fill(n, b) == [i \in 1..n |-> b] \o <<>>

Zeros(n) == Fill(n, 0)

\* buf with data copied to buf[off .. off + len(data)], a range inside buf
WriteAt(buf, off, data) ==
    SubSeq(buf, 1, off) \o data \o SubSeq(buf, off + Len(data) + 1, Len(buf))

\* sum of s[lo..hi], by halving
RECURSIVE SumRange(_, _, _)
SumRange(s, lo, hi) ==
    IF lo > hi THEN 0
    ELSE IF lo = hi THEN s[lo]
    ELSE LET mid == (lo + hi) \div 2
         IN  SumRange(s, lo, mid) + SumRange(s, mid + 1, hi)

RECURSIVE Pow(_, _)
Pow(b, n) == IF n = 0 THEN 1 ELSE b * Pow(b, n - 1)

\* n as k big-endian bytes
RECURSIVE BigEndianBytes(_, _)
BigEndianBytes(n, k) ==
    IF k = 0 THEN <<>>
    ELSE Append(BigEndianBytes(n \div U8, k - 1), n % U8)

\* BigEndian::write_u16 into a 2-byte buffer
write_u16(n) == <<(n \div U8) % U8, n % U8>>

\* read_u16 reading the low byte first
read_u16_LittleEndian(b) == b[2] * U8 + b[1]

\* BigEndian::read_u16
read_u16(b) == b[1] * U8 + b[2]

\* the byte v with bit b flipped
FlipBit(v, b) ==
    IF (v \div Pow(2, b)) % 2 = 0 THEN v + Pow(2, b) ELSE v - Pow(2, b)

(***************************************************************************)
(* Cipher capability: CipherType, new_aead_encryptor / new_aead_decryptor, *)
(* encrypt, decrypt.                                                        *)
(***************************************************************************)
CipherTypes == {"SuiteA", "SuiteB"}

tag_size(t) == IF t = "SuiteA" THEN 2 ELSE 3

salt_size(t) == IF t = "SuiteA" THEN 2 ELSE 1

Keys == {<<11>>, <<12>>}

\* the values gen_salt can return
Salts(t) == {Fill(salt_size(t), b) : b \in {5, 6}}

\* a cipher instance: suite, key, salt and the nonce it has advanced to
new_aead_cipher(t, key, salt) ==
    [t |-> t, key |-> key, salt |-> salt, nonce |-> 0]

\* what the key and salt contribute to the key stream and the tag
SubKey(c) ==
    1 + SumRange(c.key, 1, Len(c.key)) * 7 + SumRange(c.salt, 1, Len(c.salt)) * 3
      + Len(c.salt)

\* the key stream byte at index i of the unit encrypted under nonce n
KeyStream(sub, n, i) == (sub + 31 * n + 17 * i) % U8

Tag(c, ct) ==
    BigEndianBytes(
        (SubKey(c) * 89 + 8191 * (c.nonce + 1) + 257 * Len(ct)
           + SumRange(ct, 1, Len(ct))) % Pow(U8, tag_size(c.t)),
        tag_size(c.t))

\* encrypt(plaintext, dst): dst receives ciphertext ++ tag, the nonce advances
EncryptBytes(c, pt) ==
    LET sub == SubKey(c)
        ct == [i \in 1..Len(pt) |-> (pt[i] + KeyStream(sub, c.nonce, i)) % U8] \o <<>>
    IN  ct \o Tag(c, ct)

NextNonce(c) == [c EXCEPT !.nonce = @ + 1]

\* decrypt(ciphertext_with_tag, dst) authenticates
DecryptOk(c, in) ==
    /\ Len(in) >= tag_size(c.t)
    /\ LET n == Len(in) - tag_size(c.t)
       IN  SubSeq(in, n + 1, Len(in)) = Tag(c, SubSeq(in, 1, n))

\* the plaintext decrypt writes to dst when the tag matches
DecryptBytes(c, in) ==
    LET sub == SubKey(c)
    IN  [i \in 1..(Len(in) - tag_size(c.t)) |->
            (in[i] + U8 - KeyStream(sub, c.nonce, i)) % U8] \o <<>>

(***************************************************************************)
(* State.                                                                  *)
(***************************************************************************)
VARIABLES
    encCipher,  \* the encryptor session (BoxAeadEncryptor)
    dst,        \* the destination buffer of the last ahead_encrypted_write
    encRet,     \* what the last ahead_encrypted_write returned
    encCall,    \* the last ahead_encrypted_write call: its arguments as passed
    sent,       \* the plaintexts encoded so far, in order
    wire,       \* the bytes of the byte source `src`, read or not
    srcPos,     \* how many bytes of the source have been read
    srcClosed,  \* the source reports end-of-stream after its last byte
    flipped,    \* the index of the byte the transport flipped a bit of, or 0
    faults,     \* what the environment has done to the stream or the calls
    decCipher,  \* the decryptor session (BoxAeadDecryptor)
    tmp_buf,    \* the scratch buffer of ahead_decrypted_read
    output,     \* the output buffer of ahead_decrypted_read
    decPc,      \* where the ahead_decrypted_read future is suspended
    decGot,     \* bytes the pending read_exact has filled
    decLen,     \* the local `len` of the pending call
    decRet,     \* what the last ahead_decrypted_read returned
    decCall,    \* the current or last ahead_decrypted_read call: bytes read,
                \* decrypts done, the state it started from, the length its
                \* length unit authenticated, bytes cancelled calls consumed
    nCalls,     \* ahead_decrypted_read calls started
    nRet,       \* ahead_decrypted_read calls that returned
    pkt,        \* the datagram packet in flight
    dgEnc,      \* the last encrypt_payload_aead call and what it did
    dgDec,      \* the last decrypt_payload_aead call and what it did
    dgTask,     \* per concurrent task: its encrypt_payload_aead call and its
                \* decrypt_payload_aead call, each with arguments and result
    dgLocal,    \* the `cipher` local of the datagram call each task is in
    dgOverlap   \* the tasks whose call another task's call began during

encVars == <<encCipher, dst, encRet, encCall, sent>>

srcVars == <<wire, srcPos, srcClosed, flipped, faults>>

decVars == <<decCipher, tmp_buf, output, decPc, decGot, decLen, decRet, decCall,
             nCalls, nRet>>

dgVars == <<pkt, dgEnc, dgDec, dgTask, dgLocal, dgOverlap>>

vars == <<encVars, srcVars, decVars, dgVars>>

\* io::Result<usize>, a panic, or a future dropped before it returned
NoResult == [kind |-> "none", n |-> 0, err |-> ""]

Ok(n) == [kind |-> "Ok", n |-> n, err |-> ""]

Err(e) == [kind |-> "Err", n |-> 0, err |-> e]

Panic(why) == [kind |-> "Panic", n |-> 0, err |-> why]

Cancelled == [kind |-> "Cancelled", n |-> 0, err |-> ""]

(***************************************************************************)
(* buffer_size and ahead_encrypted_write.                                  *)
(***************************************************************************)
\* buffer_size without the tag of the data
buffer_size_OneTag(tag, data) == 2 + tag + Len(data)

buffer_size(tag, data) == 2 + tag + Len(data) + tag

\* the assert! with the strict comparison its message words
AssertLen_Strict(buf) == Len(buf) < MAX_PACKET_SIZE

\* the assert! of ahead_encrypted_write
AssertLen(buf) == Len(buf) <= MAX_PACKET_SIZE

\* buf.len() as u16
data_length(buf) == Len(buf) % U16

\* ahead_encrypted_write encrypting both units in one step of the session
EncryptedWrite_OneStep(c, buf, d) ==
    LET tag == tag_size(c.t)
        output_length == buffer_size(tag, buf)
        data_len_buf == write_u16(data_length(buf))
        output_length_size == 2 + tag
        d1 == WriteAt(d, 0, EncryptBytes(c, data_len_buf))
    IN  IF ~AssertLen(buf)
          THEN [ret |-> Panic("assert"), cipher |-> c, dst |-> d, ops |-> 0]
        ELSE IF output_length > Len(d)
          THEN [ret |-> Panic("slice"), cipher |-> c, dst |-> d, ops |-> 0]
        ELSE [ret |-> Ok(output_length),
              cipher |-> NextNonce(c),
              dst |-> WriteAt(d1, output_length_size, EncryptBytes(c, buf)),
              ops |-> 1]

\* ahead_encrypted_write refusing, with an error, a destination that has no
\* byte to spare
EncryptedWrite_NeedsSpare(c, buf, d) ==
    LET tag == tag_size(c.t)
        output_length == buffer_size(tag, buf)
        data_len_buf == write_u16(data_length(buf))
        output_length_size == 2 + tag
        c1 == NextNonce(c)
        d1 == WriteAt(d, 0, EncryptBytes(c, data_len_buf))
    IN  IF ~AssertLen(buf)
          THEN [ret |-> Panic("assert"), cipher |-> c, dst |-> d, ops |-> 0]
        ELSE IF output_length >= Len(d)
          THEN [ret |-> Err("InvalidInput"), cipher |-> c, dst |-> d, ops |-> 0]
        ELSE [ret |-> Ok(output_length),
              cipher |-> NextNonce(c1),
              dst |-> WriteAt(d1, output_length_size, EncryptBytes(c1, buf)),
              ops |-> 2]

\* The effect of ahead_encrypted_write(cipher, buf, dst, t) on the session
\* and on dst, and its result.  A slice taken out of range panics before
\* the call it is an argument of.
EncryptedWrite(c, buf, d) ==
    LET tag == tag_size(c.t)
        output_length == buffer_size(tag, buf)
        data_len_buf == write_u16(data_length(buf))
        output_length_size == 2 + tag
        c1 == NextNonce(c)
        d1 == WriteAt(d, 0, EncryptBytes(c, data_len_buf))
    IN  IF ~AssertLen(buf)
          THEN [ret |-> Panic("assert"), cipher |-> c, dst |-> d, ops |-> 0]
        ELSE IF output_length_size > Len(d)
          THEN [ret |-> Panic("slice"), cipher |-> c, dst |-> d, ops |-> 0]
        ELSE IF output_length > Len(d)
          THEN [ret |-> Panic("slice"), cipher |-> c1, dst |-> d1, ops |-> 1]
        ELSE [ret |-> Ok(output_length),
              cipher |-> NextNonce(c1),
              dst |-> WriteAt(d1, output_length_size, EncryptBytes(c1, buf)),
              ops |-> 2]

\* the byte a caller's fresh destination buffer holds
DstFill == 170

\* the byte a caller's fresh output buffer holds
OutFill == 85

\* The connection encodes buf into a destination buffer of dl bytes and
\* hands the bytes written to the transport.
EncWrite(buf, dl) ==
    /\ encRet.kind # "Panic"
    /\ ~srcClosed
    /\ Len(sent) < MaxChunks
    /\ LET d0 == Fill(dl, DstFill)
           r == EncryptedWrite(encCipher, buf, d0)
       IN  /\ encCipher' = r.cipher
           /\ dst' = r.dst
           /\ encRet' = r.ret
           /\ encCall' = [buf |-> buf, dst0 |-> d0, cipher0 |-> encCipher,
                          ops |-> r.ops]
           /\ IF r.ret.kind = "Ok"
                THEN /\ sent' = Append(sent, buf)
                     /\ wire' = wire \o SubSeq(r.dst, 1, r.ret.n)
                ELSE UNCHANGED <<sent, wire>>
    /\ UNCHANGED <<srcPos, srcClosed, flipped, faults, decVars, dgVars>>

(***************************************************************************)
(* ahead_decrypted_read: an async fn that suspends in two read_exact calls. *)
(***************************************************************************)
\* the size of the first read_exact
LenUnitSize(tag) == 2 + tag

\* the second read_exact sized without the tag
PayloadUnitSize_NoTag(len, tag) == len

\* the size of the second read_exact
PayloadUnitSize(len, tag) == len + tag

\* no range check on the decrypted length
LenTooLarge_Never(len) == FALSE

\* the range check letting one length too many through
LenTooLarge_OffByOne(len) == len > MAX_PACKET_SIZE + 1

\* the range check on the decrypted length
LenTooLarge(len) == len > MAX_PACKET_SIZE

\* both read_exact calls asking for the size of the length unit
Need_LenUnitAlways == LenUnitSize(tag_size(decCipher.t))

\* how many bytes the pending read_exact asks for
Need == IF decPc = "readLen"
          THEN LenUnitSize(tag_size(decCipher.t))
          ELSE PayloadUnitSize(decLen, tag_size(decCipher.t))

Avail == Len(wire) - srcPos

\* OnLenRead without the `?` on the first decrypt: a length unit that
\* fails authentication is used all the same
OnLenRead_Unchecked(c, tmp, adv) ==
    LET tag == tag_size(c.t)
        unit == SubSeq(tmp, 1, 2 + tag)
        len == read_u16(DecryptBytes(c, unit))
        claimed == IF DecryptOk(c, unit) THEN len ELSE -1
    IN  IF len > MAX_PACKET_SIZE
          THEN [ret |-> Err("InvalidData"), len |-> 0, claimed |-> claimed,
                cipher |-> NextNonce(c)]
        ELSE IF len + tag > Len(tmp)
          THEN [ret |-> Panic("slice"), len |-> 0, claimed |-> claimed,
                cipher |-> NextNonce(c)]
        ELSE [ret |-> NoResult, len |-> len, claimed |-> claimed,
              cipher |-> NextNonce(c)]

\* What follows the first read_exact, up to the second one: decrypt the
\* length unit, read the length, check its range, slice tmp_buf for the
\* payload unit.  adv: whether a decrypt that fails advances the nonce.
\* claimed: the length the unit authenticated, -1 when it did not.
OnLenRead(c, tmp, adv) ==
    LET tag == tag_size(c.t)
        unit == SubSeq(tmp, 1, 2 + tag)
        len == read_u16(DecryptBytes(c, unit))
    IN  IF ~DecryptOk(c, unit)
          THEN [ret |-> Err("AuthFailed"), len |-> 0, claimed |-> -1,
                cipher |-> IF adv THEN NextNonce(c) ELSE c]
        ELSE IF LenTooLarge(len)
          THEN [ret |-> Err("InvalidData"), len |-> 0, claimed |-> len,
                cipher |-> NextNonce(c)]
        ELSE IF PayloadUnitSize(len, tag) > Len(tmp)
          THEN [ret |-> Panic("slice"), len |-> 0, claimed |-> len,
                cipher |-> NextNonce(c)]
        ELSE [ret |-> NoResult, len |-> len, claimed |-> len,
              cipher |-> NextNonce(c)]

\* OnPayloadRead without the `?` on the second decrypt: what the payload
\* unit decrypts to is returned whether or not it authenticates
OnPayloadRead_Unchecked(c, tmp, out, len, adv) ==
    LET unit == SubSeq(tmp, 1, len + tag_size(c.t))
    IN  IF len > Len(out)
          THEN [ret |-> Panic("slice"), cipher |-> c, output |-> out, ops |-> 0]
        ELSE [ret |-> Ok(len), cipher |-> NextNonce(c), ops |-> 1,
              output |-> WriteAt(out, 0, DecryptBytes(c, unit))]

\* What follows the second read_exact: slice output, decrypt the payload
\* unit into it, return the length.
OnPayloadRead(c, tmp, out, len, adv) ==
    LET tag == tag_size(c.t)
        unit == SubSeq(tmp, 1, len + tag)
    IN  IF len > Len(out)
          THEN [ret |-> Panic("slice"), cipher |-> c, output |-> out, ops |-> 0]
        ELSE IF ~DecryptOk(c, unit)
          THEN [ret |-> Err("AuthFailed"), output |-> out, ops |-> 1,
                cipher |-> IF adv THEN NextNonce(c) ELSE c]
        ELSE [ret |-> Ok(len), cipher |-> NextNonce(c), ops |-> 1,
              output |-> WriteAt(out, 0, DecryptBytes(c, unit))]

\* The connection calls ahead_decrypted_read; the future runs up to its
\* first read_exact.  A connection whose decode failed is closed: no call
\* follows an error or a panic.
DecCall ==
    /\ decPc = "idle"
    /\ decRet.kind \notin {"Err", "Panic"}
    /\ nCalls < MaxCalls
    /\ nCalls' = nCalls + 1
    /\ decCall' = [read |-> 0, ops |-> 0, output0 |-> output, pos0 |-> srcPos,
                   cipher0 |-> decCipher, claimed |-> -1,
                   lost |-> decCall.lost
                            + IF decRet.kind = "Cancelled" THEN decCall.read ELSE 0]
    /\ decGot' = 0
    /\ decLen' = 0
    /\ IF LenUnitSize(tag_size(decCipher.t)) > Len(tmp_buf)
         THEN /\ decRet' = Panic("slice")
              /\ nRet' = nRet + 1
              /\ UNCHANGED decPc
         ELSE /\ decRet' = NoResult
              /\ decPc' = "readLen"
              /\ UNCHANGED nRet
    /\ UNCHANGED <<encVars, srcVars, decCipher, tmp_buf, output, dgVars>>

\* DecPoll with the length unit decrypted into the head of the output
\* buffer, not into a buffer of the call's own
DecPoll_LenIntoOutput(k, adv) ==
    /\ decPc \in {"readLen", "readPayload"}
    /\ k >= 1
    /\ k <= Min(Need - decGot, Avail)
    /\ srcPos' = srcPos + k
    /\ LET tmp == WriteAt(tmp_buf, decGot, SubSeq(wire, srcPos + 1, srcPos + k))
           call == [decCall EXCEPT !.read = @ + k]
       IN  /\ tmp_buf' = tmp
           /\ IF decGot + k < Need
                THEN /\ decGot' = decGot + k
                     /\ decCall' = call
                     /\ UNCHANGED <<decCipher, output, decPc, decLen, decRet, nRet>>
              ELSE IF decPc = "readLen"
                THEN LET r == OnLenRead(decCipher, tmp, adv)
                         unit == SubSeq(tmp, 1, LenUnitSize(tag_size(decCipher.t)))
                     IN  /\ decCipher' = r.cipher
                         /\ decCall' = [call EXCEPT !.ops = @ + 1,
                                                   !.claimed = r.claimed]
                         /\ decLen' = r.len
                         /\ decGot' = 0
                         /\ decRet' = r.ret
                         /\ decPc' = IF r.ret.kind = "none" THEN "readPayload"
                                     ELSE "idle"
                         /\ nRet' = IF r.ret.kind = "none" THEN nRet ELSE nRet + 1
                         /\ output' = IF r.claimed >= 0 /\ Len(output) >= 2
                                         THEN WriteAt(output, 0,
                                                      DecryptBytes(decCipher, unit))
                                         ELSE output
              ELSE LET r == OnPayloadRead(decCipher, tmp, output, decLen, adv)
                   IN  /\ decCipher' = r.cipher
                       /\ decCall' = [call EXCEPT !.ops = @ + r.ops]
                       /\ output' = r.output
                       /\ decRet' = r.ret
                       /\ decPc' = "idle"
                       /\ decGot' = 0
                       /\ nRet' = nRet + 1
                       /\ UNCHANGED decLen
    /\ UNCHANGED <<encVars, wire, srcClosed, flipped, faults, nCalls, dgVars>>

\* The pending read_exact polls the source, which delivers k bytes; when
\* that fills the buffer the future runs on to its next suspension or to
\* its return.
DecPoll(k, adv) ==
    /\ decPc \in {"readLen", "readPayload"}
    /\ k >= 1
    /\ k <= Min(Need - decGot, Avail)
    /\ srcPos' = srcPos + k
    /\ LET tmp == WriteAt(tmp_buf, decGot, SubSeq(wire, srcPos + 1, srcPos + k))
           call == [decCall EXCEPT !.read = @ + k]
       IN  /\ tmp_buf' = tmp
           /\ IF decGot + k < Need
                THEN /\ decGot' = decGot + k
                     /\ decCall' = call
                     /\ UNCHANGED <<decCipher, output, decPc, decLen, decRet, nRet>>
              ELSE IF decPc = "readLen"
                THEN LET r == OnLenRead(decCipher, tmp, adv)
                     IN  /\ decCipher' = r.cipher
                         /\ decCall' = [call EXCEPT !.ops = @ + 1,
                                                   !.claimed = r.claimed]
                         /\ decLen' = r.len
                         /\ decGot' = 0
                         /\ decRet' = r.ret
                         /\ decPc' = IF r.ret.kind = "none" THEN "readPayload"
                                     ELSE "idle"
                         /\ nRet' = IF r.ret.kind = "none" THEN nRet ELSE nRet + 1
                         /\ UNCHANGED output
              ELSE LET r == OnPayloadRead(decCipher, tmp, output, decLen, adv)
                   IN  /\ decCipher' = r.cipher
                       /\ decCall' = [call EXCEPT !.ops = @ + r.ops]
                       /\ output' = r.output
                       /\ decRet' = r.ret
                       /\ decPc' = "idle"
                       /\ decGot' = 0
                       /\ nRet' = nRet + 1
                       /\ UNCHANGED decLen
    /\ UNCHANGED <<encVars, wire, srcClosed, flipped, faults, nCalls, dgVars>>

\* The pending read_exact polls the source and the source reports
\* end-of-stream: read_exact fails with UnexpectedEof and `?` returns it.
DecEof ==
    /\ decPc \in {"readLen", "readPayload"}
    /\ srcClosed
    /\ Avail = 0
    /\ decRet' = Err("UnexpectedEof")
    /\ decPc' = "idle"
    /\ decGot' = 0
    /\ nRet' = nRet + 1
    /\ UNCHANGED <<encVars, srcVars, decCipher, tmp_buf, output, decLen, decCall,
                   nCalls,
                   dgVars>>

\* The pending read_exact polls the source and the source fails: `?`
\* returns the error.
DecSrcErr ==
    /\ decPc \in {"readLen", "readPayload"}
    /\ faults = {}
    /\ faults' = faults \cup {"ioerr"}
    /\ decRet' = Err("SourceError")
    /\ decPc' = "idle"
    /\ decGot' = 0
    /\ nRet' = nRet + 1
    /\ UNCHANGED <<encVars, wire, srcPos, srcClosed, flipped, decCipher,
                   tmp_buf, output, decLen, decCall, nCalls, dgVars>>

\* a dropped future that hands the caller the length it had decrypted
DecCancel_ReturnsLen ==
    /\ decPc \in {"readLen", "readPayload"}
    /\ faults = {}
    /\ faults' = faults \cup {"cancel"}
    /\ decRet' = Ok(decLen)
    /\ decPc' = "idle"
    /\ decGot' = 0
    /\ UNCHANGED <<encVars, wire, srcPos, srcClosed, flipped, decCipher,
                   tmp_buf, output, decLen, decCall, nCalls, nRet, dgVars>>

\* The caller drops the future while it is suspended in a read_exact.
DecCancel ==
    /\ decPc \in {"readLen", "readPayload"}
    /\ faults = {}
    /\ faults' = faults \cup {"cancel"}
    /\ decRet' = Cancelled
    /\ decPc' = "idle"
    /\ decGot' = 0
    /\ UNCHANGED <<encVars, wire, srcPos, srcClosed, flipped, decCipher,
                   tmp_buf, output, decLen, decCall, nCalls, nRet, dgVars>>

(***************************************************************************)
(* The environment of the stream: the peer, the transport, the caller.     *)
(***************************************************************************)
\* A peer that holds the session writes a lone length unit claiming v.
PeerRaw(v) ==
    /\ encRet.kind # "Panic"
    /\ ~srcClosed
    /\ faults = {}
    /\ faults' = faults \cup {"raw"}
    /\ wire' = wire \o EncryptBytes(encCipher, write_u16(v))
    /\ encCipher' = NextNonce(encCipher)
    /\ UNCHANGED <<dst, encRet, encCall, sent, srcPos, srcClosed, flipped,
                   decVars, dgVars>>

\* The transport flips bit b of the unread byte at index i.
Flip(i, b) ==
    /\ faults = {}
    /\ i > srcPos
    /\ i <= Len(wire)
    /\ faults' = faults \cup {"flip"}
    /\ flipped' = i
    /\ wire' = [wire EXCEPT ![i] = FlipBit(@, b)]
    /\ UNCHANGED <<encVars, srcPos, srcClosed, decVars, dgVars>>

\* The transport closes after delivering k more of the bytes written.
Close(k) ==
    /\ ~srcClosed
    /\ k >= 0
    /\ k <= Avail
    /\ srcClosed' = TRUE
    /\ wire' = SubSeq(wire, 1, srcPos + k)
    /\ k < Avail => faults = {}
    /\ faults' = IF k < Avail THEN faults \cup {"trunc"} ELSE faults
    /\ UNCHANGED <<encVars, srcPos, flipped, decVars, dgVars>>

(***************************************************************************)
(* The datagram codec: encrypt_payload_aead and decrypt_payload_aead.      *)
(***************************************************************************)
\* encrypt_payload_aead without the copy of the salt into the output
encrypt_payload_aead_NoSalt(t, key, payload, out, salt) ==
    LET cipher == new_aead_cipher(t, key, salt)
        total == Len(salt) + Len(payload) + tag_size(t)
    IN  IF total > Len(out)
          THEN [ret |-> Panic("slice"), output |-> out, derived |-> 1, ops |-> 0]
        ELSE [ret |-> Ok(total), derived |-> 1, ops |-> 1,
              output |-> WriteAt(out, Len(salt), EncryptBytes(cipher, payload))]

\* The effect of encrypt_payload_aead(t, key, payload, output) when
\* gen_salt returns salt: the result, the output buffer, and how many
\* cipher instances were derived and cipher operations performed.
encrypt_payload_aead(t, key, payload, out, salt) ==
    LET tag == tag_size(t)
        cipher == new_aead_cipher(t, key, salt)
        salt_len == Len(salt)
        o1 == WriteAt(out, 0, salt)
        total == salt_len + Len(payload) + tag
    IN  IF salt_len > Len(out)
          THEN [ret |-> Panic("slice"), output |-> out, derived |-> 1, ops |-> 0]
        ELSE IF total > Len(out)
          THEN [ret |-> Panic("slice"), output |-> o1, derived |-> 1, ops |-> 0]
        ELSE [ret |-> Ok(total), derived |-> 1, ops |-> 1,
              output |-> WriteAt(o1, salt_len, EncryptBytes(cipher, payload))]

\* the minimum-size check with <= for <
TooShort_Inclusive(t, packet) == Len(packet) <= tag_size(t) + salt_size(t)

\* the minimum-size check of decrypt_payload_aead
TooShort(t, packet) == Len(packet) < tag_size(t) + salt_size(t)

\* decrypt_payload_aead without the `?` on the decrypt: what the body
\* decrypts to is returned whether or not it authenticates
decrypt_payload_aead_Unchecked(t, key, packet, out) ==
    LET tag == tag_size(t)
        ssize == salt_size(t)
        salt == SubSeq(packet, 1, ssize)
        data == SubSeq(packet, ssize + 1, Len(packet))
        dlen == Len(packet) - tag - ssize
        cipher == new_aead_cipher(t, key, salt)
    IN  IF TooShort(t, packet)
          THEN [ret |-> Err("UnexpectedEof"), output |-> out, derived |-> 0,
                ops |-> 0]
        ELSE IF dlen > Len(out)
          THEN [ret |-> Panic("slice"), output |-> out, derived |-> 1, ops |-> 0]
        ELSE [ret |-> Ok(dlen), derived |-> 1, ops |-> 1,
              output |-> WriteAt(out, 0, DecryptBytes(cipher, data))]

\* The effect of decrypt_payload_aead(t, key, payload, output), payload
\* being the packet.
decrypt_payload_aead(t, key, packet, out) ==
    LET tag == tag_size(t)
        ssize == salt_size(t)
        salt == SubSeq(packet, 1, ssize)
        data == SubSeq(packet, ssize + 1, Len(packet))
        dlen == Len(packet) - tag - ssize
        cipher == new_aead_cipher(t, key, salt)
    IN  IF TooShort(t, packet)
          THEN [ret |-> Err("UnexpectedEof"), output |-> out, derived |-> 0,
                ops |-> 0]
        ELSE IF dlen > Len(out)
          THEN [ret |-> Panic("slice"), output |-> out, derived |-> 1, ops |-> 0]
        ELSE IF ~DecryptOk(cipher, data)
          THEN [ret |-> Err("AuthFailed"), output |-> out, derived |-> 1,
                ops |-> 1]
        ELSE [ret |-> Ok(dlen), derived |-> 1, ops |-> 1,
              output |-> WriteAt(out, 0, DecryptBytes(cipher, data))]

Tasks == 1..NTasks

\* a datagram call not yet made
IdleCall ==
    [pc |-> "idle", t |-> "SuiteA", key |-> <<>>, payload |-> <<>>,
     salt |-> <<>>, packet |-> <<>>, from |-> 0, out0 |-> <<>>, output |-> <<>>,
     ret |-> NoResult]

\* no datagram call has been made
DgIdle ==
    /\ dgTask = [p \in Tasks |-> [enc |-> IdleCall, dec |-> IdleCall]]
    /\ dgLocal = [p \in Tasks |-> new_aead_cipher("SuiteA", <<>>, <<>>)]
    /\ dgOverlap = {}
    /\ pkt = <<>>
    /\ dgEnc = [called |-> FALSE, t |-> "SuiteA", key |-> <<>>, payload |-> <<>>,
                salt |-> <<>>, output0 |-> <<>>, output |-> <<>>,
                ret |-> NoResult, derived |-> 0, ops |-> 0]
    /\ dgDec = [called |-> FALSE, t |-> "SuiteA", key |-> <<>>, packet |-> <<>>,
                output0 |-> <<>>, output |-> <<>>, ret |-> NoResult,
                derived |-> 0, ops |-> 0, fresh |-> FALSE]

\* A sender encodes payload into an output buffer of ol bytes and sends
\* the bytes written as one packet.
DgEncrypt(t, key, payload, salt, ol) ==
    /\ ~dgEnc.called
    /\ LET out0 == Fill(ol, DstFill)
           r == encrypt_payload_aead(t, key, payload, out0, salt)
       IN  /\ dgEnc' = [called |-> TRUE, t |-> t, key |-> key, payload |-> payload,
                        salt |-> salt, output0 |-> out0, output |-> r.output,
                        ret |-> r.ret, derived |-> r.derived, ops |-> r.ops]
           /\ pkt' = IF r.ret.kind = "Ok" THEN SubSeq(r.output, 1, r.ret.n)
                     ELSE pkt
    /\ UNCHANGED <<encVars, srcVars, decVars, dgDec, dgTask, dgLocal, dgOverlap>>

\* The network delivers only the first k bytes of the packet.
DgTruncate(k) ==
    /\ dgEnc.ret.kind = "Ok"
    /\ pkt = SubSeq(dgEnc.output, 1, dgEnc.ret.n)
    /\ k >= 0
    /\ k < Len(pkt)
    /\ pkt' = SubSeq(pkt, 1, k)
    /\ UNCHANGED <<encVars, srcVars, decVars, dgEnc, dgDec, dgTask, dgLocal, dgOverlap>>

\* The network flips bit b of the packet's byte at index i.
DgFlip(i, b) ==
    /\ dgEnc.ret.kind = "Ok"
    /\ pkt = SubSeq(dgEnc.output, 1, dgEnc.ret.n)
    /\ i >= 1
    /\ i <= Len(pkt)
    /\ pkt' = [pkt EXCEPT ![i] = FlipBit(@, b)]
    /\ UNCHANGED <<encVars, srcVars, decVars, dgEnc, dgDec, dgTask, dgLocal, dgOverlap>>

\* A receiver decodes the packet in flight into an output buffer of ol
\* bytes.
DgDecrypt(t, key, ol) ==
    /\ ~dgDec.called
    /\ LET out0 == Fill(ol, OutFill)
           r == decrypt_payload_aead(t, key, pkt, out0)
       IN  dgDec' = [called |-> TRUE, t |-> t, key |-> key, packet |-> pkt,
                     output0 |-> out0, output |-> r.output, ret |-> r.ret,
                     derived |-> r.derived, ops |-> r.ops,
                     fresh |-> dgEnc.ret.kind = "Ok"
                               /\ pkt = SubSeq(dgEnc.output, 1, dgEnc.ret.n)]
    /\ UNCHANGED <<encVars, srcVars, decVars, pkt, dgEnc, dgTask, dgLocal, dgOverlap>>

(***************************************************************************)
(* The datagram codec called by concurrent tasks.  A call's locals are its *)
(* own; a task is scheduled between deriving its cipher and using it.      *)
(***************************************************************************)
\* one `cipher` shared by all calls
CipherSlot_Shared(p) == 1

\* where the `let mut cipher` of the call task p is in lives: in that call
CipherSlot(p) == p

\* the salt read from the end of the packet
PacketSalt_Tail(t, packet) ==
    SubSeq(packet, Len(packet) - salt_size(t) + 1, Len(packet))

\* let salt = &payload[..salt_size]
PacketSalt(t, packet) == SubSeq(packet, 1, salt_size(t))

\* let data = &payload[salt_size..]
PacketData(t, packet) == SubSeq(packet, salt_size(t) + 1, Len(packet))

\* task p is inside a datagram call
TaskMid(p) == dgTask[p].enc.pc = "derived" \/ dgTask[p].dec.pc = "derived"

\* the calls that overlap once task p begins a call
OverlapOnStart(p) ==
    LET others == {q \in Tasks \ {p} : TaskMid(q)}
    IN  dgOverlap \cup others \cup (IF others = {} THEN {} ELSE {p})

\* Task p calls encrypt_payload_aead: gen_salt returns salt, the cipher is
\* derived.
TaskEncStart(p, t, key, payload, salt, ol) ==
    /\ dgTask[p].enc.pc = "idle"
    /\ dgTask' = [dgTask EXCEPT ![p].enc =
                     [pc |-> "derived", t |-> t, key |-> key, payload |-> payload,
                      salt |-> salt, packet |-> <<>>, from |-> p,
                      out0 |-> Fill(ol, DstFill), output |-> Fill(ol, DstFill),
                      ret |-> NoResult]]
    /\ dgLocal' = [dgLocal EXCEPT ![CipherSlot(p)] = new_aead_cipher(t, key, salt)]
    /\ dgOverlap' = OverlapOnStart(p)
    /\ UNCHANGED <<encVars, srcVars, decVars, pkt, dgEnc, dgDec>>

\* Task p's encrypt_payload_aead runs on: the salt is copied, the payload
\* encrypted after it, the length returned; the packet is sent.
TaskEncFinish(p) ==
    /\ dgTask[p].enc.pc = "derived"
    /\ LET call == dgTask[p].enc
           cipher == dgLocal[CipherSlot(p)]
           salt_len == Len(call.salt)
           total == salt_len + Len(call.payload) + tag_size(call.t)
           o1 == WriteAt(call.output, 0, call.salt)
           o2 == WriteAt(o1, salt_len, EncryptBytes(cipher, call.payload))
       IN  IF salt_len > Len(call.output)
             THEN /\ dgTask' = [dgTask EXCEPT ![p].enc.pc = "done",
                                              ![p].enc.ret = Panic("slice")]
                  /\ UNCHANGED dgLocal
           ELSE IF total > Len(call.output)
             THEN /\ dgTask' = [dgTask EXCEPT ![p].enc.pc = "done",
                                              ![p].enc.output = o1,
                                              ![p].enc.ret = Panic("slice")]
                  /\ UNCHANGED dgLocal
           ELSE /\ dgTask' = [dgTask EXCEPT ![p].enc.pc = "done",
                                            ![p].enc.output = o2,
                                            ![p].enc.packet = SubSeq(o2, 1, total),
                                            ![p].enc.ret = Ok(total)]
                /\ dgLocal' = [dgLocal EXCEPT ![CipherSlot(p)] = NextNonce(cipher)]
    /\ UNCHANGED <<encVars, srcVars, decVars, pkt, dgEnc, dgDec, dgOverlap>>

\* Task p, its own packet sent, calls decrypt_payload_aead on the packet
\* task q sent: the length is checked, the salt split off, the cipher
\* derived.
TaskDecStart(p, q, t, key, ol) ==
    /\ dgTask[p].enc.pc = "done"
    /\ dgTask[p].dec.pc = "idle"
    /\ dgTask[q].enc.ret.kind = "Ok"
    /\ LET packet == dgTask[q].enc.packet
           call == [pc |-> "derived", t |-> t, key |-> key, payload |-> <<>>,
                    salt |-> <<>>, packet |-> packet, from |-> q,
                    out0 |-> Fill(ol, OutFill), output |-> Fill(ol, OutFill),
                    ret |-> NoResult]
       IN  IF TooShort(t, packet)
             THEN /\ dgTask' = [dgTask EXCEPT ![p].dec =
                                    [call EXCEPT !.pc = "done",
                                                 !.ret = Err("UnexpectedEof")]]
                  /\ UNCHANGED <<dgLocal, dgOverlap>>
           ELSE /\ dgTask' = [dgTask EXCEPT ![p].dec =
                                  [call EXCEPT !.salt = PacketSalt(t, packet)]]
                /\ dgLocal' = [dgLocal EXCEPT ![CipherSlot(p)] =
                                  new_aead_cipher(t, key, PacketSalt(t, packet))]
                /\ dgOverlap' = OverlapOnStart(p)
    /\ UNCHANGED <<encVars, srcVars, decVars, pkt, dgEnc, dgDec>>

\* Task p's decrypt_payload_aead runs on: the data is decrypted into the
\* output, the length returned.
TaskDecFinish(p) ==
    /\ dgTask[p].dec.pc = "derived"
    /\ LET call == dgTask[p].dec
           cipher == dgLocal[CipherSlot(p)]
           data == PacketData(call.t, call.packet)
           dlen == Len(call.packet) - tag_size(call.t) - salt_size(call.t)
       IN  IF dlen > Len(call.output)
             THEN /\ dgTask' = [dgTask EXCEPT ![p].dec.pc = "done",
                                              ![p].dec.ret = Panic("slice")]
                  /\ UNCHANGED dgLocal
           ELSE IF ~DecryptOk(cipher, data)
             THEN /\ dgTask' = [dgTask EXCEPT ![p].dec.pc = "done",
                                              ![p].dec.ret = Err("AuthFailed")]
                  /\ UNCHANGED dgLocal
           ELSE /\ dgTask' = [dgTask EXCEPT
                                  ![p].dec.pc = "done",
                                  ![p].dec.output =
                                      WriteAt(call.output, 0, DecryptBytes(cipher, data)),
                                  ![p].dec.ret = Ok(dlen)]
                /\ dgLocal' = [dgLocal EXCEPT ![CipherSlot(p)] = NextNonce(cipher)]
    /\ UNCHANGED <<encVars, srcVars, decVars, pkt, dgEnc, dgDec, dgOverlap>>

(***************************************************************************)
(* Inputs and specifications of the stream codec.                          *)
(***************************************************************************)
PlainBytes == {0, 255}

RECURSIVE SeqsUpTo(_, _)
SeqsUpTo(S, n) ==
    IF n = 0 THEN {<<>>}
    ELSE LET shorter == SeqsUpTo(S, n - 1)
         IN  shorter \cup {Append(q, x) : q \in {r \in shorter : Len(r) = n - 1},
                                         x \in S}

\* the plaintexts of the small input set
Plaintexts == SeqsUpTo(PlainBytes, MaxLen)

\* the plaintexts around the largest chunk, and one whose length wraps to 1
\* in 16 bits
BoundaryPlaintexts ==
    {Fill(n, 1) : n \in {MAX_PACKET_SIZE, MAX_PACKET_SIZE + 1, U16 + 1}}

\* the destination sizes a caller passes for buf: one byte short, exact, spare
DstSizes(t, buf) ==
    {buffer_size(tag_size(t), buf) + d : d \in {-1, 0, Slack}}

\* the lengths a lone length unit claims
RawLens == {MaxLen + 1, MAX_PACKET_SIZE, MAX_PACKET_SIZE + 1,
            2 * (MAX_PACKET_SIZE + 1), U16 - 1}

\* Both sessions are created from the same key and salt; the decoder's
\* buffers hold chunks of up to maxChunk bytes.
Start(t, key, salt, maxChunk) ==
    /\ encCipher = new_aead_cipher(t, key, salt)
    /\ decCipher = new_aead_cipher(t, key, salt)
    /\ dst = <<>>
    /\ encRet = NoResult
    /\ encCall = [buf |-> <<>>, dst0 |-> <<>>, cipher0 |-> encCipher, ops |-> 0]
    /\ sent = <<>>
    /\ wire = <<>>
    /\ srcPos = 0
    /\ srcClosed = FALSE
    /\ flipped = 0
    /\ faults = {}
    /\ tmp_buf = Zeros(2 + tag_size(t) + maxChunk + tag_size(t))
    /\ output = Fill(maxChunk, OutFill)
    /\ decPc = "idle"
    /\ decGot = 0
    /\ decLen = 0
    /\ decRet = NoResult
    /\ decCall = [read |-> 0, ops |-> 0, output0 |-> output, pos0 |-> 0,
                  cipher0 |-> decCipher, claimed |-> -1, lost |-> 0]
    /\ nCalls = 0
    /\ nRet = 0
    /\ DgIdle

\* the key and the salt of the stream's sessions
SessionKey == <<11>>

SessionSalt(t) == Fill(salt_size(t), 5)

Init == \E t \in CipherTypes : Start(t, SessionKey, SessionSalt(t), MaxLen)

\* the fragment sizes a poll delivers: up to MaxFrag bytes, or all it can
FragSizes == (1..MaxFrag) \cup {Min(Need - decGot, Avail)}

\* the plaintexts of the behaviours in which the environment misbehaves
FewPlaintexts == {Fill(n, 255 - n) : n \in 0..MaxLen}

\* A well-behaved peer and caller over a transport that delivers in
\* fragments and may close early.
Next ==
    \/ \E buf \in Plaintexts : \E dl \in DstSizes(encCipher.t, buf) : EncWrite(buf, dl)
    \/ DecCall
    \/ \E k \in FragSizes : \E adv \in BOOLEAN : DecPoll(k, adv)
    \/ DecEof
    \/ \E k \in 0..Avail : Close(k)

Spec == Init /\ [][Next]_vars

\* the steps every stream specification below shares
Honest ==
    \/ \E buf \in FewPlaintexts : \E dl \in DstSizes(encCipher.t, buf) :
          EncWrite(buf, dl)
    \/ DecCall
    \/ \E k \in FragSizes : \E adv \in BOOLEAN : DecPoll(k, adv)
    \/ DecEof
    \/ Close(Avail)

\* A transport that flips one bit, or a peer that sends a length unit of
\* its own making.
NextHostile ==
    \/ Honest
    \/ \E i \in 1..Len(wire) : \E b \in 0..7 : Flip(i, b)
    \/ \E v \in RawLens : PeerRaw(v)

SpecHostile == Init /\ [][NextHostile]_vars

\* A caller that drops the future, and a source that fails.
NextCancel ==
    \/ Honest
    \/ DecCancel
    \/ DecSrcErr

SpecCancel == Init /\ [][NextCancel]_vars

\* A stream and a source with one fault of any kind: a flipped bit, a
\* length unit of a peer's own making, a source error, or a close at any
\* byte.
NextFaulty ==
    \/ NextHostile
    \/ DecSrcErr
    \/ \E k \in 0..Avail : Close(k)

SpecFaulty == Init /\ [][NextFaulty]_vars

\* Chunks around the largest one, decoded with buffers of the sizes the
\* decoder's contract asks for, over a transport that delivers all it has.
InitBoundary ==
    \E t \in CipherTypes : Start(t, SessionKey, SessionSalt(t), MAX_PACKET_SIZE)

NextBoundary ==
    \/ \E buf \in BoundaryPlaintexts : \E dl \in DstSizes(encCipher.t, buf) :
          EncWrite(buf, dl)
    \/ DecCall
    \/ \E adv \in BOOLEAN : DecPoll(Min(Need - decGot, Avail), adv)
    \/ DecEof
    \/ Close(Avail)

SpecBoundary == InitBoundary /\ [][NextBoundary]_vars

\* the largest plaintext a chunk carries
LargestPlaintext == Fill(MAX_PACKET_SIZE, 1)

\* the lengths an adversary's length unit claims: the largest allowed, one
\* more, and the largest of 16 bits
AdversaryLens == {MAX_PACKET_SIZE, MAX_PACKET_SIZE + 1, U16 - 1}

\* the bytes of the stream the transport may flip a bit of: the next one
\* to be read and the last one written
FlipAt == {srcPos + 1, Len(wire)}

\* The decoder with buffers of the sizes its contract asks for, over a
\* stream that carries largest chunks, length units of a peer's own making
\* and a flipped bit.
NextAdversary ==
    \/ EncWrite(LargestPlaintext, buffer_size(tag_size(encCipher.t), LargestPlaintext))
    \/ \E v \in AdversaryLens : PeerRaw(v)
    \/ \E i \in FlipAt : Flip(i, 7)
    \/ DecCall
    \/ \E adv \in BOOLEAN : DecPoll(Min(Need - decGot, Avail), adv)
    \/ DecEof
    \/ Close(Avail)

SpecAdversary == InitBoundary /\ [][NextAdversary]_vars

(***************************************************************************)
(* Inputs and specification of the datagram codec.                         *)
(***************************************************************************)
\* the output sizes a sender passes for payload: one byte short, exact, spare
DgEncSizes(t, payload) ==
    {salt_size(t) + Len(payload) + tag_size(t) + d : d \in {-1, 0, Slack}}

\* the output sizes a receiver passes
DgDecSizes == 0..(MaxLen + Slack)

InitDatagram == Start("SuiteA", SessionKey, SessionSalt("SuiteA"), 0)

NextDatagram ==
    \/ \E t \in CipherTypes : \E key \in Keys : \E payload \in Plaintexts :
          \E salt \in Salts(t) : \E ol \in DgEncSizes(t, payload) :
             DgEncrypt(t, key, payload, salt, ol)
    \/ \E k \in 0..Len(pkt) : DgTruncate(k)
    \/ \E i \in 1..Len(pkt) : \E b \in 0..7 : DgFlip(i, b)
    \/ \E t \in CipherTypes : \E key \in Keys : \E ol \in DgDecSizes :
          DgDecrypt(t, key, ol)

SpecDatagram == InitDatagram /\ [][NextDatagram]_vars

\* the output sizes the concurrent senders pass: exact
TaskEncSize(t, payload) == salt_size(t) + Len(payload) + tag_size(t)

\* the payloads the concurrent senders send: the empty one and the longest
TaskPlaintexts == {Fill(n, 255 - n) : n \in {0, MaxLen}}

\* the output sizes the concurrent receivers pass: one byte short of the
\* longest payload, or holding it
TaskDecSizes == {MaxLen - 1, MaxLen}

\* Tasks that each send one packet and then decode one of the packets
\* sent, scheduled in any order.
NextTasks ==
    \/ \E p \in Tasks : \E t \in CipherTypes : \E key \in Keys :
          \E payload \in TaskPlaintexts : \E salt \in Salts(t) :
             TaskEncStart(p, t, key, payload, salt, TaskEncSize(t, payload))
    \/ \E p \in Tasks : TaskEncFinish(p)
    \/ \E p \in Tasks : \E q \in Tasks : \E t \in CipherTypes : \E key \in Keys :
          \E ol \in TaskDecSizes : TaskDecStart(p, q, t, key, ol)
    \/ \E p \in Tasks : TaskDecFinish(p)

SpecTasks == InitDatagram /\ [][NextTasks]_vars

(***************************************************************************)
(* Properties.                                                             *)
(***************************************************************************)
\* the last ahead_decrypted_read call has returned
Returned == decPc = "idle" /\ decRet.kind \in {"Ok", "Err", "Panic"}

C2_OversizedLengthRejected ==
    /\ (decCall.claimed >= 0 /\ (decCall.claimed \div 16384) % 4 # 0)
           => decCall.claimed > MAX_PACKET_SIZE
    /\ decCall.claimed > MAX_PACKET_SIZE
           => (decPc = "idle" /\ decRet = Err("InvalidData"))
    /\ decRet.kind = "Ok" => decRet.n <= MAX_PACKET_SIZE

\* the smallest oversized length, authenticated and rejected
C2_Witness ==
    /\ decCall.claimed = MAX_PACKET_SIZE + 1
    /\ decRet = Err("InvalidData")

\* the length unit of the last call failed authentication
LenUnitAuthFailed ==
    /\ Returned
    /\ decCall.ops = 1
    /\ decCall.claimed = -1
    /\ decRet = Err("AuthFailed")

\* C3: the payload read is pending, or bytes beyond the length unit have
\* been read, only once the length unit has authenticated a length within
\* MAX_PACKET_SIZE; and a call whose length unit fails authentication or
\* claims more has read exactly 2 + tag_size bytes, has decrypted once, and
\* has returned the error.
C3_LengthCheckedBeforePayloadRead ==
    LET unit == 2 + tag_size(decCipher.t)
    IN  /\ (decPc = "readPayload" \/ decCall.read > unit)
               => /\ decCall.claimed >= 0
                  /\ decCall.claimed <= MAX_PACKET_SIZE
                  /\ decCall.ops >= 1
        /\ decPc = "readPayload" => decLen = decCall.claimed
        /\ (decCall.ops >= 1 /\ (decCall.claimed = -1
                                   \/ decCall.claimed > MAX_PACKET_SIZE))
               => /\ decCall.read = unit
                  /\ srcPos = decCall.pos0 + unit
                  /\ decCall.ops = 1
                  /\ decPc = "idle"
                  /\ decRet.kind = "Err"

\* a length unit failed authentication while more bytes were there to read
C3_Witness == LenUnitAuthFailed /\ Avail > 0

C5_CleanEofDistinctFromTruncation ==
    (Returned /\ decRet = Err("UnexpectedEof")) => decCall.read > 0

C7_TamperDetected ==
    (/\ Returned
     /\ flipped > decCall.pos0
     /\ flipped <= srcPos)
        => decRet = Err("AuthFailed")

\* a bit flipped in the payload unit of the second chunk, detected
C7_Witness ==
    /\ Returned
    /\ nRet = 2
    /\ flipped > decCall.pos0 + 2 + tag_size(decCipher.t)
    /\ flipped <= srcPos
    /\ decRet = Err("AuthFailed")

\* C8: a call that returns Ok has written encrypt(len as 2 big-endian
\* bytes) at dst[0 .. 2+tag_size] under the nonce the session had, then
\* encrypt(buf) right after it under the next nonce, returns
\* (2 + tag_size) + (len + tag_size), and has left the rest of dst as it
\* was; every call with a plaintext within MAX_PACKET_SIZE and a
\* destination of at least that many bytes returns Ok.
C8_EncodeLayout ==
    LET tag == tag_size(encCall.cipher0.t)
        len == Len(encCall.buf)
        n == (2 + tag) + (len + tag)
    IN  /\ encRet.kind = "Ok"
               => /\ encRet.n = n
                  /\ SubSeq(dst, 1, 2 + tag)
                        = EncryptBytes(encCall.cipher0, <<len \div 256, len % 256>>)
                  /\ SubSeq(dst, 2 + tag + 1, n)
                        = EncryptBytes(NextNonce(encCall.cipher0), encCall.buf)
                  /\ Len(dst) = Len(encCall.dst0)
                  /\ SubSeq(dst, n + 1, Len(dst))
                        = SubSeq(encCall.dst0, n + 1, Len(dst))
                  /\ encCipher = NextNonce(NextNonce(encCall.cipher0))
        /\ (/\ encRet.kind # "none"
            /\ len <= MAX_PACKET_SIZE
            /\ Len(encCall.dst0) >= n)
               => encRet.kind = "Ok"

\* a plaintext of the largest small size encoded into a longer destination
C8_Witness ==
    /\ encRet.kind = "Ok"
    /\ Len(encCall.buf) = MaxLen
    /\ Len(dst) > encRet.n

\* C9: decrypt_payload_aead given a packet shorter than tag_size +
\* salt_size returns the too-short error having derived no cipher, done no
\* cipher operation and left the output as it was; given a packet of at
\* least that length it goes on to derive the decryptor.
C9_DatagramTooShort ==
    dgDec.called =>
        LET min == tag_size(dgDec.t) + salt_size(dgDec.t)
        IN  /\ Len(dgDec.packet) < min
                   => /\ dgDec.ret = Err("UnexpectedEof")
                      /\ dgDec.derived = 0
                      /\ dgDec.ops = 0
                      /\ dgDec.output = dgDec.output0
            /\ Len(dgDec.packet) >= min => dgDec.derived = 1

\* a packet one byte short of the minimum, rejected
C9_Witness ==
    /\ dgDec.called
    /\ Len(dgDec.packet) = tag_size(dgDec.t) + salt_size(dgDec.t) - 1
    /\ dgDec.ret = Err("UnexpectedEof")

\* C10: encrypt_payload_aead given an output that holds the packet returns
\* Ok(salt_size + len + tag_size) with the salt it drew first in the
\* output; decrypt_payload_aead on exactly those bytes with the same suite
\* and key, given an output that holds the payload, returns Ok(len) with
\* the payload first in its output.
C10_DatagramRoundTrip ==
    LET n == salt_size(dgEnc.t) + Len(dgEnc.payload) + tag_size(dgEnc.t)
    IN  /\ (dgEnc.called /\ Len(dgEnc.output0) >= n)
               => /\ dgEnc.ret = Ok(n)
                  /\ SubSeq(dgEnc.output, 1, salt_size(dgEnc.t)) = dgEnc.salt
        /\ (/\ dgDec.called
            /\ dgDec.fresh
            /\ dgDec.t = dgEnc.t
            /\ dgDec.key = dgEnc.key
            /\ Len(dgDec.output0) >= Len(dgEnc.payload))
               => /\ dgDec.ret = Ok(Len(dgEnc.payload))
                  /\ SubSeq(dgDec.output, 1, Len(dgEnc.payload)) = dgEnc.payload

\* a payload of the largest small size, encoded and decoded
C10_Witness ==
    /\ dgDec.called
    /\ dgDec.fresh
    /\ dgDec.key = dgEnc.key
    /\ Len(dgEnc.payload) = MaxLen
    /\ dgDec.ret = Ok(MaxLen)

\* C11: while the payload read is pending, and after a call is cancelled,
\* the caller holds no result of the call and the output buffer is as it
\* was before the call; a length reaches the caller only as the Ok of a
\* call that has decrypted the payload unit, and is the length its length
\* unit authenticated.
C11_CancelHidesLength ==
    /\ decPc = "readPayload" => (decRet = NoResult /\ output = decCall.output0)
    /\ decRet.kind = "Cancelled"
           => (decRet = Cancelled /\ output = decCall.output0)
    /\ decRet.kind = "Ok" => (decCall.ops = 2 /\ decRet.n = decCall.claimed)

\* the second call, cancelled once its length unit had authenticated the
\* largest small length, its output buffer holding the first plaintext
C11_Witness ==
    /\ decRet = Cancelled
    /\ nCalls = 2
    /\ decCall.ops = 1
    /\ decCall.claimed = MaxLen
    /\ decCall.read >= 2 + tag_size(decCipher.t)
    /\ output[1] # OutFill
    /\ output = decCall.output0

\* C12: decrypt_payload_aead given a packet of at least tag_size + salt_size
\* bytes whose body does not authenticate under the cipher derived from the
\* key and the packet's first salt_size bytes never returns Ok, and returns
\* the authentication error when the output holds the body's plaintext;
\* Ok(0) is returned only for salt followed by the encryption of the empty
\* payload.
C12_DatagramAuthFailureReported ==
    dgDec.called =>
        LET min == tag_size(dgDec.t) + salt_size(dgDec.t)
            salt == SubSeq(dgDec.packet, 1, salt_size(dgDec.t))
            body == SubSeq(dgDec.packet, salt_size(dgDec.t) + 1, Len(dgDec.packet))
            c == new_aead_cipher(dgDec.t, dgDec.key, salt)
        IN  /\ (Len(dgDec.packet) >= min /\ ~DecryptOk(c, body))
                   => /\ dgDec.ret.kind # "Ok"
                      /\ Len(dgDec.output0) >= Len(dgDec.packet) - min
                             => dgDec.ret = Err("AuthFailed")
            /\ dgDec.ret = Ok(0)
                   => /\ Len(dgDec.packet) = min
                      /\ body = EncryptBytes(c, <<>>)

\* a packet cut to the minimum length, which is the length of an encoded
\* empty payload, reported as failing authentication
C12_Witness ==
    /\ dgDec.called
    /\ ~dgDec.fresh
    /\ dgDec.t = dgEnc.t
    /\ dgDec.key = dgEnc.key
    /\ Len(dgEnc.payload) > 0
    /\ Len(dgDec.packet) = tag_size(dgDec.t) + salt_size(dgDec.t)
    /\ dgDec.ret = Err("AuthFailed")

\* C13: two encrypt_payload_aead calls with the same suite, key and
\* plaintext whose salts differ send different packets; and a
\* decrypt_payload_aead call on a packet sent, with the sender's suite and
\* key and an output that holds the plaintext, returns Ok of the
\* plaintext's length with the plaintext first in its output.
C13_DatagramIndependence ==
    /\ \A p \in Tasks : \A q \in Tasks :
          LET a == dgTask[p].enc
              b == dgTask[q].enc
          IN  (/\ a.ret.kind = "Ok"
               /\ b.ret.kind = "Ok"
               /\ a.t = b.t
               /\ a.key = b.key
               /\ a.payload = b.payload
               /\ a.salt # b.salt)
                  => a.packet # b.packet
    /\ \A p \in Tasks :
          LET d == dgTask[p].dec
              e == dgTask[IF d.from = 0 THEN p ELSE d.from].enc
          IN  (/\ d.pc = "done"
               /\ d.t = e.t
               /\ d.key = e.key
               /\ Len(d.out0) >= Len(e.payload))
                  => /\ d.ret = Ok(Len(e.payload))
                     /\ SubSeq(d.output, 1, Len(e.payload)) = e.payload

\* the longest payload sent twice under one key with different salts, and
\* each of the two packets decoded to it
C13_Witness ==
    /\ dgTask[1].enc.ret.kind = "Ok"
    /\ dgTask[2].enc.ret.kind = "Ok"
    /\ dgTask[1].enc.t = dgTask[2].enc.t
    /\ dgTask[1].enc.key = dgTask[2].enc.key
    /\ dgTask[1].enc.payload = dgTask[2].enc.payload
    /\ Len(dgTask[1].enc.payload) = MaxLen
    /\ dgTask[1].enc.salt # dgTask[2].enc.salt
    /\ dgTask[1].enc.packet # dgTask[2].enc.packet
    /\ dgTask[1].dec.from = 2
    /\ dgTask[2].dec.from = 1
    /\ dgTask[1].dec.ret = Ok(MaxLen)
    /\ dgTask[2].dec.ret = Ok(MaxLen)
    /\ dgTask[1].dec.output = dgTask[2].dec.output

\* C14: under every interleaving of the tasks' calls, a
\* decrypt_payload_aead call that has returned has the result and the
\* output that decrypt_payload_aead gives for its suite, key, packet and
\* output buffer alone, and an encrypt_payload_aead call that has returned
\* has those encrypt_payload_aead gives for its arguments and its salt.
C14_DatagramCallsStateless ==
    \A p \in Tasks :
        LET d == dgTask[p].dec
            e == dgTask[p].enc
            alone == decrypt_payload_aead(d.t, d.key, d.packet, d.out0)
            sent1 == encrypt_payload_aead(e.t, e.key, e.payload, e.out0, e.salt)
        IN  /\ d.pc = "done" => (d.ret = alone.ret /\ d.output = alone.output)
            /\ e.pc = "done" => (e.ret = sent1.ret /\ e.output = sent1.output)

\* a decode that returned Ok although the other task, under another key,
\* began a call between its start and its return
C14_Witness ==
    /\ 1 \in dgOverlap
    /\ dgTask[1].dec.pc = "done"
    /\ dgTask[1].dec.ret = Ok(MaxLen)
    /\ dgTask[2].dec.pc = "derived"
    /\ dgTask[2].dec.key # dgTask[1].dec.key
    /\ dgTask[2].dec.packet # dgTask[1].dec.packet

\* C15: ahead_encrypted_write never returns Err; a call with a plaintext of
\* at most MAX_PACKET_SIZE bytes and a destination of at least
\* buffer_size(tag_size, plaintext) bytes returns Ok, whatever nonce the
\* session has advanced to; a call that does not return Ok has panicked,
\* and was given a longer plaintext or a shorter destination.
C15_EncodeHasNoErrorPath ==
    LET need == buffer_size(tag_size(encCall.cipher0.t), encCall.buf)
        fits == Len(encCall.buf) <= MAX_PACKET_SIZE /\ Len(encCall.dst0) >= need
    IN  /\ encRet.kind # "Err"
        /\ (encRet.kind # "none" /\ fits) => encRet = Ok(need)
        /\ (encRet.kind # "none" /\ ~fits) => encRet.kind = "Panic"

\* the empty plaintext encoded as a second chunk into a destination of
\* exactly buffer_size bytes
C15_Witness ==
    /\ encRet.kind = "Ok"
    /\ encCall.buf = <<>>
    /\ encCall.cipher0.nonce = 2
    /\ Len(encCall.dst0) = buffer_size(tag_size(encCall.cipher0.t), encCall.buf)

\* where the k-th chunk encoded ends in the stream
RECURSIVE ChunkEnd(_)
ChunkEnd(k) ==
    IF k = 0 THEN 0
    ELSE ChunkEnd(k - 1) + buffer_size(tag_size(encCipher.t), sent[k])

\* C16: a call that returns Ok(len) has read exactly
\* (2 + tag_size) + (len + tag_size) bytes, which is buffer_size of the
\* plaintext it returns, however the source delivered them; the source has
\* advanced by just those bytes and stands where the chunk decoded ends,
\* the first byte of the next chunk.
C16_DecodeReadsOneChunk ==
    (Returned /\ decRet.kind = "Ok") =>
        LET tag == tag_size(decCipher.t)
            len == decRet.n
        IN  /\ decCall.read = (2 + tag) + (len + tag)
            /\ decCall.read = buffer_size(tag, SubSeq(output, 1, len))
            /\ srcPos = decCall.pos0 + decCall.read
            /\ decCall.pos0 = ChunkEnd(nRet - 1)
            /\ srcPos = ChunkEnd(nRet)

\* the first of two chunks decoded, the source standing at the first byte
\* of the second
C16_Witness ==
    /\ Returned
    /\ decRet = Ok(MaxLen)
    /\ nRet = 1
    /\ Len(sent) = 2
    /\ srcPos = ChunkEnd(1)
    /\ Avail = buffer_size(tag_size(encCipher.t), sent[2])

\* the session a cipher of the stream is in after n operations
SessionAt(c, n) == [c EXCEPT !.nonce = n]

\* C17: an ahead_encrypted_write call that returns has done exactly two
\* encrypts and an ahead_decrypted_read call that returns Ok exactly two
\* decrypts; after k encodes the encryptor has done 2k operations and after
\* k decodes the decryptor 2k, the two sessions being equal when as many
\* chunks are decoded as encoded; and the k-th decode decrypted, under
\* nonces 2k-2 and 2k-1, the length unit and the payload unit the k-th
\* encode encrypted under those nonces.
C17_NonceLockStep ==
    /\ encRet.kind = "Ok"
           => /\ encCall.ops = 2
              /\ encCipher = SessionAt(encCall.cipher0, encCall.cipher0.nonce + 2)
    /\ encRet.kind # "Panic" => encCipher.nonce = 2 * Len(sent)
    /\ (Returned /\ decRet.kind = "Ok")
           => LET k == nRet
                  unit == 2 + tag_size(decCipher.t)
                  from == decCall.pos0
              IN  /\ decCall.ops = 2
                  /\ decCall.cipher0.nonce = 2 * k - 2
                  /\ decCipher = SessionAt(decCall.cipher0, 2 * k)
                  /\ SubSeq(wire, from + 1, from + unit)
                        = EncryptBytes(SessionAt(encCipher, 2 * k - 2),
                                       write_u16(Len(sent[k])))
                  /\ SubSeq(wire, from + unit + 1, srcPos)
                        = EncryptBytes(SessionAt(encCipher, 2 * k - 1), sent[k])
                  /\ (encRet.kind # "Panic" /\ k = Len(sent))
                         => decCipher = encCipher

\* two chunks encoded and both decoded: both sessions at nonce 4
C17_Witness ==
    /\ Returned
    /\ decRet.kind = "Ok"
    /\ nRet = 2
    /\ Len(sent) = 2
    /\ encRet.kind = "Ok"
    /\ decCipher.nonce = 4
    /\ decCipher = encCipher

\* C18: with a scratch buffer of 2 + tag_size + MAX_PACKET_SIZE + tag_size
\* bytes and an output buffer of MAX_PACKET_SIZE bytes, whatever the stream
\* carries, no call panics: the range [0, 2 + tag_size) of the first read
\* and the range [0, len + tag_size) of the second lie within the scratch
\* buffer and [0, len) within the output buffer.
C18_DecodeSlicesInBounds ==
    LET tag == tag_size(decCipher.t)
    IN  (/\ Len(tmp_buf) >= 2 + tag + MAX_PACKET_SIZE + tag
         /\ Len(output) >= MAX_PACKET_SIZE)
            => /\ decRet.kind # "Panic"
               /\ decPc = "readLen" => 2 + tag <= Len(tmp_buf)
               /\ decPc = "readPayload"
                      => /\ decLen + tag <= Len(tmp_buf)
                         /\ decLen <= Len(output)
               /\ decRet.kind = "Ok" => decRet.n <= Len(output)

\* a peer-made length unit claiming MAX_PACKET_SIZE, its payload read
\* completed and both buffers sliced at their largest, then rejected
C18_Witness ==
    /\ Len(tmp_buf) = 2 * tag_size(decCipher.t) + 2 + MAX_PACKET_SIZE
    /\ Len(output) = MAX_PACKET_SIZE
    /\ faults = {"raw"}
    /\ Returned
    /\ decCall.claimed = MAX_PACKET_SIZE
    /\ decCall.ops = 2
    /\ decRet = Err("AuthFailed")

\* the last call returned an error that arose before the payload decrypt
EarlyFailure ==
    /\ Returned
    /\ \/ decRet \in {Err("SourceError"), Err("UnexpectedEof"), Err("InvalidData")}
       \/ LenUnitAuthFailed

\* C19: a call that returns a source error or end-of-stream from either
\* read, the authentication failure of the length unit, or the invalid-data
\* error of a length above MAX_PACKET_SIZE has done no payload decrypt and
\* leaves the output buffer byte for byte as it was before the call.
C19_OutputUntouchedOnEarlyFailure ==
    EarlyFailure => (decCall.ops <= 1 /\ output = decCall.output0)

\* the second call, ended by end-of-stream inside its payload read, the
\* output buffer still holding the first plaintext
C19_Witness ==
    /\ EarlyFailure
    /\ decRet = Err("UnexpectedEof")
    /\ nCalls = 2
    /\ decCall.ops = 1
    /\ decCall.read > 2 + tag_size(decCipher.t)
    /\ output[1] # OutFill
    /\ output = decCall.output0

====
